---- MODULE Spec2Model ----
(***************************************************************************)
(* Dots and Boxes: the game logic (gameLogic.ts: initializeGame,           *)
(* isValidMove, applyMove, checkGameEnd, getWinner) and the component that *)
(* drives it (GameBoard.tsx: handleLineClick, the Play Again button).      *)
(*                                                                         *)
(* Five specifications share the variables:                                *)
(*   Spec          - the logic alone: any sequence of applyMove calls,     *)
(*                   with any line id (existing or not) and any acting     *)
(*                   player, on grids of at most MaxDots dots;             *)
(*   SpecValidated - the logic under a caller that validates each move     *)
(*                   with isValidMove first, any acting player, on grids   *)
(*                   of up to WideCols - 1 boxes in a row;                 *)
(*   SpecBoard     - the game as GameBoard plays it: line clicks and the   *)
(*                   Play Again reset;                                     *)
(*   SpecBoardFair - SpecBoard with players who go on clicking undrawn     *)
(*                   lines (weak fairness);                                *)
(*   SpecStale     - SpecBoard plus clicks handled by the handler of the   *)
(*                   render before the last click.                         *)
(***************************************************************************)
EXTENDS Integers, Sequences, FiniteSets, TLC

VARIABLES
    gridRows,   \* number of dots vertically (argument numRows / prop gridRows)
    gridCols,   \* number of dots horizontally (argument numCols / prop gridCols)
    gameState,  \* the current GameState value
    last        \* record of the last operation: its inputs and what it returned

vars == <<gridRows, gridCols, gameState, last>>

\* Largest number of dots (rows * cols) of a grid the model plays on.
MaxDots == 6

\* Largest number of columns of dots of the two-row grids that validated
\* play is explored on (WideCols - 1 boxes side by side).
WideCols == 4

\* Largest number of dots per side for which initializeGame is evaluated on
\* its own, apart from the games played.
MaxSide == 4

\* types.tsx: Player, and the null of `Player | null`.
Player == {"player1", "player2"}
Null == "null"

\* GameBoard.tsx: prev.playerTurn === 'player1' ? 'player2' : 'player1'
OtherPlayer(p) == IF p = "player1" THEN "player2" ELSE "player1"

(***************************************************************************)
(* gameLogic.ts                                                            *)
(***************************************************************************)

\* The line id mutated: the orientation is left out of the id.
getLineId_NoOrientation(row, col, orientation) ==
    "l-" \o ToString(row) \o "-" \o ToString(col)

\* `${orientation}-${row}-${col}`
getLineId(row, col, orientation) ==
    orientation \o "-" \o ToString(row) \o "-" \o ToString(col)

\* `b-${row}-${col}`
getBoxId(row, col) == "b-" \o ToString(row) \o "-" \o ToString(col)

\* The object pushed for one line.
NewLine(r, c, orientation) ==
    [id |-> getLineId(r, c, orientation), row |-> r, col |-> c,
     orientation |-> orientation, isDrawn |-> FALSE, owner |-> Null]

\* The object pushed for one box.
NewBox(r, c) == [id |-> getBoxId(r, c), row |-> r, col |-> c, owner |-> Null]

\* for r in [0,numRows) for c in [0,numCols-1): push a horizontal line
RECURSIVE HorizontalLoop(_, _, _, _, _)
HorizontalLoop(r, c, numRows, numCols, lines) ==
    IF ~(r < numRows) THEN lines
    ELSE IF ~(c < numCols - 1)
         THEN HorizontalLoop(r + 1, 0, numRows, numCols, lines)
         ELSE HorizontalLoop(r, c + 1, numRows, numCols,
                             Append(lines, NewLine(r, c, "horizontal")))

\* for r in [0,numRows-1) for c in [0,numCols): push a vertical line
RECURSIVE VerticalLoop(_, _, _, _, _)
VerticalLoop(r, c, numRows, numCols, lines) ==
    IF ~(r < numRows - 1) THEN lines
    ELSE IF ~(c < numCols)
         THEN VerticalLoop(r + 1, 0, numRows, numCols, lines)
         ELSE VerticalLoop(r, c + 1, numRows, numCols,
                           Append(lines, NewLine(r, c, "vertical")))

\* for r in [0,numRows-1) for c in [0,numCols-1): push a box
RECURSIVE BoxLoop(_, _, _, _, _)
BoxLoop(r, c, numRows, numCols, boxes) ==
    IF ~(r < numRows - 1) THEN boxes
    ELSE IF ~(c < numCols - 1)
         THEN BoxLoop(r + 1, 0, numRows, numCols, boxes)
         ELSE BoxLoop(r, c + 1, numRows, numCols, Append(boxes, NewBox(r, c)))

\* initializeGame mutated: rows and columns are mixed up in the loops.
initializeGame_SwapsDims(numRows, numCols) ==
    [lines       |-> VerticalLoop(0, 0, numCols, numRows,
                        HorizontalLoop(0, 0, numCols, numRows, <<>>)),
     boxes       |-> BoxLoop(0, 0, numCols, numRows, <<>>),
     playerTurn  |-> "player1",
     playerChars |-> [player1 |-> "X", player2 |-> "O"],
     scores      |-> [player1 |-> 0, player2 |-> 0],
     gridSize    |-> [rows |-> numRows, cols |-> numCols]]

initializeGame(numRows, numCols) ==
    [lines       |-> VerticalLoop(0, 0, numRows, numCols,
                        HorizontalLoop(0, 0, numRows, numCols, <<>>)),
     boxes       |-> BoxLoop(0, 0, numRows, numCols, <<>>),
     playerTurn  |-> "player1",
     playerChars |-> [player1 |-> "X", player2 |-> "O"],
     scores      |-> [player1 |-> 0, player2 |-> 0],
     gridSize    |-> [rows |-> numRows, cols |-> numCols]]

\* Smallest element of a non-empty set of indices.
MinOf(S) == CHOOSE i \in S : \A j \in S : i <= j

\* lines.findIndex((l) => l.id === lineId): 0-based index, -1 when absent.
findIndexById(lines, lineId) ==
    LET S == {i \in 1..Len(lines) : lines[i].id = lineId}
    IN  IF S = {} THEN -1 ELSE MinOf(S) - 1

\* lines.find((l) => l.orientation === o && l.row === row && l.col === col):
\* the 1-based position of the first match, 0 for undefined.
findLine(lines, orientation, row, col) ==
    LET S == {i \in 1..Len(lines) : /\ lines[i].orientation = orientation
                                    /\ lines[i].row = row
                                    /\ lines[i].col = col}
    IN  IF S = {} THEN 0 ELSE MinOf(S)

\* found?.isDrawn as a condition: undefined is falsy.
OptIsDrawn(lines, pos) == IF pos = 0 THEN FALSE ELSE lines[pos].isDrawn

\* isValidMove mutated: any existing line is accepted, drawn or not.
isValidMove_IgnoresDrawn(state, lineId) ==
    findIndexById(state.lines, lineId) # -1

isValidMove(state, lineId) ==
    LET idx == findIndexById(state.lines, lineId)
    IN  IF idx # -1 THEN ~state.lines[idx + 1].isDrawn ELSE FALSE

\* JSON.parse(JSON.stringify(state)): a fresh value rebuilt field by field
\* (every field is a string, number, boolean, null, array or plain object).
JSONClone(state) ==
    [lines       |-> [i \in 1..Len(state.lines) |->
                        [id          |-> state.lines[i].id,
                         row         |-> state.lines[i].row,
                         col         |-> state.lines[i].col,
                         orientation |-> state.lines[i].orientation,
                         isDrawn     |-> state.lines[i].isDrawn,
                         owner       |-> state.lines[i].owner]],
     boxes       |-> [i \in 1..Len(state.boxes) |->
                        [id    |-> state.boxes[i].id,
                         row   |-> state.boxes[i].row,
                         col   |-> state.boxes[i].col,
                         owner |-> state.boxes[i].owner]],
     playerTurn  |-> state.playerTurn,
     playerChars |-> [player1 |-> state.playerChars.player1,
                      player2 |-> state.playerChars.player2],
     scores      |-> [player1 |-> state.scores.player1,
                      player2 |-> state.scores.player2],
     gridSize    |-> [rows |-> state.gridSize.rows, cols |-> state.gridSize.cols]]

\* The rejection test mutated: an already drawn line is drawn again.
IsInvalidMove_RedrawsLine(lines, lineIndex) == lineIndex = -1

\* lineIndex === -1 || newState.lines[lineIndex].isDrawn
IsInvalidMove(lines, lineIndex) ==
    lineIndex = -1 \/ lines[lineIndex + 1].isDrawn

\* The drawing mutated: the line gets its owner but is not marked drawn.
DrawLine_OnlyOwner(state, lineIndex, player) ==
    [state EXCEPT !.lines[lineIndex + 1].owner = player]

\* The drawing mutated: the line is marked drawn but gets no owner.
DrawLine_NoOwner(state, lineIndex, player) ==
    [state EXCEPT !.lines[lineIndex + 1].isDrawn = TRUE]

\* newState.lines[lineIndex].isDrawn = true; .owner = player
DrawLine(state, lineIndex, player) ==
    [state EXCEPT !.lines[lineIndex + 1].isDrawn = TRUE,
                  !.lines[lineIndex + 1].owner = player]

\* The completion test mutated: the right-hand line is not looked at.
BoxComplete_SkipsRight(lines, box) ==
    /\ OptIsDrawn(lines, findLine(lines, "horizontal", box.row, box.col))
    /\ OptIsDrawn(lines, findLine(lines, "horizontal", box.row + 1, box.col))
    /\ OptIsDrawn(lines, findLine(lines, "vertical", box.row, box.col))

\* top?.isDrawn && bottom?.isDrawn && left?.isDrawn && right?.isDrawn
BoxComplete(lines, box) ==
    LET top    == findLine(lines, "horizontal", box.row, box.col)
        bottom == findLine(lines, "horizontal", box.row + 1, box.col)
        left   == findLine(lines, "vertical", box.row, box.col)
        right  == findLine(lines, "vertical", box.row, box.col + 1)
    IN  /\ OptIsDrawn(lines, top)
        /\ OptIsDrawn(lines, bottom)
        /\ OptIsDrawn(lines, left)
        /\ OptIsDrawn(lines, right)

\* The award mutated: the box is owned but the score is not incremented.
AwardBox_NoScore(state, i, player) ==
    [state EXCEPT !.boxes[i].owner = player]

\* The award mutated: the point goes to the player whose turn the state says.
AwardBox_ScoresTurnPlayer(state, i, player) ==
    [state EXCEPT !.boxes[i].owner = player,
                  !.scores[state.playerTurn] = @ + 1]

\* box.owner = player; newState.scores[player]++
AwardBox(state, i, player) ==
    [state EXCEPT !.boxes[i].owner = player,
                  !.scores[player] = @ + 1]

\* The loop mutated: it stops (break) after the first box it awards.
RECURSIVE BoxesLoop_StopsAfterFirst(_, _, _, _)
BoxesLoop_StopsAfterFirst(state, player, i, newlyFormedBoxIds) ==
    IF i > Len(state.boxes)
    THEN [newState |-> state, boxesFormed |-> newlyFormedBoxIds]
    ELSE IF state.boxes[i].owner = Null /\ BoxComplete(state.lines, state.boxes[i])
         THEN [newState    |-> AwardBox(state, i, player),
               boxesFormed |-> Append(newlyFormedBoxIds, state.boxes[i].id)]
         ELSE BoxesLoop_StopsAfterFirst(state, player, i + 1, newlyFormedBoxIds)

\* for (const box of newState.boxes) { if (box.owner === null) ... }
RECURSIVE BoxesLoop(_, _, _, _)
BoxesLoop(state, player, i, newlyFormedBoxIds) ==
    IF i > Len(state.boxes)
    THEN [newState |-> state, boxesFormed |-> newlyFormedBoxIds]
    ELSE IF state.boxes[i].owner = Null /\ BoxComplete(state.lines, state.boxes[i])
         THEN BoxesLoop(AwardBox(state, i, player), player, i + 1,
                        Append(newlyFormedBoxIds, state.boxes[i].id))
         ELSE BoxesLoop(state, player, i + 1, newlyFormedBoxIds)

\* applyMove mutated: the core also passes the turn to the other player.
applyMove_PassesTurn(currentGameState, lineId, player) ==
    LET newState  == JSONClone(currentGameState)
        lineIndex == findIndexById(newState.lines, lineId)
    IN  IF IsInvalidMove(newState.lines, lineIndex)
        THEN [newState |-> currentGameState, boxesFormed |-> <<>>]
        ELSE BoxesLoop(DrawLine([newState EXCEPT !.playerTurn = OtherPlayer(player)],
                                lineIndex, player),
                       player, 1, <<>>)

applyMove(currentGameState, lineId, player) ==
    LET newState  == JSONClone(currentGameState)
        lineIndex == findIndexById(newState.lines, lineId)
    IN  IF IsInvalidMove(newState.lines, lineIndex)
        THEN [newState |-> currentGameState, boxesFormed |-> <<>>]
        ELSE BoxesLoop(DrawLine(newState, lineIndex, player), player, 1, <<>>)

(***************************************************************************)
(* applyMove with object identity. The objects applyMove assigns to are    *)
(* the line objects, the box objects and the scores object. A heap is a    *)
(* sequence of such objects, an address is a position in it, and a         *)
(* reference to a game state names the address of each of its objects.     *)
(***************************************************************************)

\* New objects for the lines, the boxes and the scores of a state value, placed
\* after the objects the heap already holds.
Allocate(heap, state) ==
    LET base == Len(heap)
        nL   == Len(state.lines)
        nB   == Len(state.boxes)
    IN  [heap |-> heap \o state.lines \o state.boxes \o <<state.scores>>,
         ref  |-> [lines  |-> [i \in 1..nL |-> base + i],
                   boxes  |-> [i \in 1..nB |-> base + nL + i],
                   scores |-> base + nL + nB + 1]]

\* The value read through a reference; `state` gives the fields held by value.
Deref(heap, ref, state) ==
    [state EXCEPT !.lines  = [i \in 1..Len(ref.lines) |-> heap[ref.lines[i]]],
                  !.boxes  = [i \in 1..Len(ref.boxes) |-> heap[ref.boxes[i]]],
                  !.scores = heap[ref.scores]]

\* The assignments made through a reference: the objects it names take the
\* values of `state`, every other object of the heap is left alone.
WriteThrough(heap, ref, state) ==
    [a \in 1..Len(heap) |->
        IF \E i \in 1..Len(ref.lines) : ref.lines[i] = a
        THEN state.lines[CHOOSE i \in 1..Len(ref.lines) : ref.lines[i] = a]
        ELSE IF \E i \in 1..Len(ref.boxes) : ref.boxes[i] = a
        THEN state.boxes[CHOOSE i \in 1..Len(ref.boxes) : ref.boxes[i] = a]
        ELSE IF ref.scores = a THEN state.scores
        ELSE heap[a]]

\* The clone mutated: a spread copy { ...currentGameState }, whose lines, boxes
\* and scores are the objects of the input.
JSONCloneRef_SharesObjects(heap, ref, state) == [heap |-> heap, ref |-> ref]

\* JSON.parse(JSON.stringify(currentGameState)): a new object for every line,
\* every box and the scores.
JSONCloneRef(heap, ref, state) == Allocate(heap, JSONClone(Deref(heap, ref, state)))

\* applyMove run on objects: what it returns, and `input`, the value of the
\* caller's currentGameState object once the call has returned.
applyMoveObjects(currentGameState, lineId, player) ==
    LET caller    == Allocate(<<>>, currentGameState)
        clone     == JSONCloneRef(caller.heap, caller.ref, currentGameState)
        newState  == Deref(clone.heap, clone.ref, currentGameState)
        lineIndex == findIndexById(newState.lines, lineId)
    IN  IF IsInvalidMove(newState.lines, lineIndex)
        THEN [newState    |-> Deref(clone.heap, caller.ref, currentGameState),
              boxesFormed |-> <<>>,
              input       |-> Deref(clone.heap, caller.ref, currentGameState)]
        ELSE LET r    == BoxesLoop(DrawLine(newState, lineIndex, player), player, 1, <<>>)
                 heap == WriteThrough(clone.heap, clone.ref, r.newState)
             IN  [newState    |-> Deref(heap, clone.ref, r.newState),
                  boxesFormed |-> r.boxesFormed,
                  input       |-> Deref(heap, caller.ref, currentGameState)]

\* checkGameEnd mutated: an empty line set is not taken as finished.
checkGameEnd_NeedsALine(state) ==
    /\ Len(state.lines) > 0
    /\ \A i \in 1..Len(state.lines) : state.lines[i].isDrawn

\* gameState.lines.every((line) => line.isDrawn)
checkGameEnd(state) == \A i \in 1..Len(state.lines) : state.lines[i].isDrawn

\* getWinner mutated: the scores are compared without the game-end test.
getWinner_NoEndTest(state) ==
    IF state.scores.player1 > state.scores.player2 THEN "player1"
    ELSE IF state.scores.player2 > state.scores.player1 THEN "player2"
    ELSE Null

getWinner(state) ==
    IF ~checkGameEnd(state) THEN Null
    ELSE IF state.scores.player1 > state.scores.player2 THEN "player1"
    ELSE IF state.scores.player2 > state.scores.player1 THEN "player2"
    ELSE Null

(***************************************************************************)
(* GameBoard.tsx                                                           *)
(***************************************************************************)

\* The turn update mutated: the turn is never passed on.
TurnUpdate_NeverFlips(prev, boxesFormed) == prev

\* The turn update mutated: the turn passes after every accepted move.
TurnUpdate_AlwaysFlips(prev, boxesFormed) ==
    [prev EXCEPT !.playerTurn = OtherPlayer(prev.playerTurn)]

\* if (boxesFormed.length === 0) setGameState((prev) => ({...prev, playerTurn: ...}))
TurnUpdate(prev, boxesFormed) ==
    IF Len(boxesFormed) = 0
    THEN [prev EXCEPT !.playerTurn = OtherPlayer(prev.playerTurn)]
    ELSE prev

\* handleLineClick(lineId) run on the state the component holds. The result is
\* the state after the queued updates: setGameState(newState), then the
\* functional turn update applied to it. `applied` tells whether applyMove ran.
handleLineClick(state, lineId) ==
    IF checkGameEnd(state)
    THEN [state |-> state, applied |-> FALSE, boxesFormed |-> <<>>]
    ELSE LET currentGameState == JSONClone(state)
         IN  IF isValidMove(currentGameState, lineId)
             THEN LET r == applyMove(currentGameState, lineId, state.playerTurn)
                  IN  [state       |-> TurnUpdate(r.newState, r.boxesFormed),
                       applied     |-> TRUE,
                       boxesFormed |-> r.boxesFormed]
             ELSE [state |-> state, applied |-> FALSE, boxesFormed |-> <<>>]

\* The Play Again button mutated: it is rendered all the time.
PlayAgainShown_Always(state) == TRUE

\* {isGameOver && ( ... <button onClick=...>Play Again</button> ... )}
PlayAgainShown(state) == checkGameEnd(state)

(***************************************************************************)
(* The state machine                                                       *)
(***************************************************************************)

\* Grids of at most MaxDots dots; rows >= 1 and cols >= 1.
Grids == {g \in (1..MaxDots) \X (1..MaxDots) : g[1] * g[2] <= MaxDots}

\* Line ids a caller may pass: every line of the state, and two ids just
\* outside the grid, which name no line.
LineIds(state) == {state.lines[i].id : i \in 1..Len(state.lines)}

OutsideIds(state) ==
    {getLineId(state.gridSize.rows, 0, "horizontal"),
     getLineId(0, state.gridSize.cols, "vertical")}

Init ==
    /\ \E g \in Grids : gridRows = g[1] /\ gridCols = g[2]
    /\ gameState = initializeGame(gridRows, gridCols)
    /\ last = [op |-> "initializeGame", lineId |-> "", player |-> "player1",
               pre |-> gameState, applied |-> FALSE, boxesFormed |-> <<>>]

\* A call applyMove(gameState, lineId, player); the caller keeps the result.
ApplyMove ==
    \E lineId \in LineIds(gameState) \cup OutsideIds(gameState), player \in Player :
        LET r == applyMove(gameState, lineId, player)
        IN  /\ gameState' = r.newState
            /\ last' = [op |-> "applyMove", lineId |-> lineId, player |-> player,
                        pre |-> gameState, applied |-> TRUE,
                        boxesFormed |-> r.boxesFormed]
            /\ UNCHANGED <<gridRows, gridCols>>

\* A click on one of the rendered lines.
LineClick ==
    \E lineId \in LineIds(gameState) :
        LET r == handleLineClick(gameState, lineId)
        IN  /\ gameState' = r.state
            /\ last' = [op |-> "handleLineClick", lineId |-> lineId,
                        player |-> gameState.playerTurn, pre |-> gameState,
                        applied |-> r.applied, boxesFormed |-> r.boxesFormed]
            /\ UNCHANGED <<gridRows, gridCols>>

\* onClick={() => setGameState(initializeGame(gridRows, gridCols))}
PlayAgain ==
    /\ PlayAgainShown(gameState)
    /\ gameState' = initializeGame(gridRows, gridCols)
    /\ last' = [op |-> "playAgain", lineId |-> "", player |-> gameState.playerTurn,
                pre |-> gameState, applied |-> FALSE, boxesFormed |-> <<>>]
    /\ UNCHANGED <<gridRows, gridCols>>

\* Two rows of dots and 2..WideCols columns, and the narrower of these grids
\* turned by a quarter (boxes stacked instead of side by side).
WideGrids == {<<2, c>> : c \in 2..WideCols} \cup {<<c, 2>> : c \in 2..(WideCols - 1)}

InitWide ==
    /\ \E g \in WideGrids : gridRows = g[1] /\ gridCols = g[2]
    /\ gameState = initializeGame(gridRows, gridCols)
    /\ last = [op |-> "initializeGame", lineId |-> "", player |-> "player1",
               pre |-> gameState, applied |-> FALSE, boxesFormed |-> <<>>]

\* A caller that validates first: applyMove is called only when isValidMove
\* says yes ("caller should have validated the move").
ApplyValidatedMove ==
    \E lineId \in LineIds(gameState) \cup OutsideIds(gameState), player \in Player :
        /\ isValidMove(gameState, lineId)
        /\ LET r == applyMove(gameState, lineId, player)
           IN  /\ gameState' = r.newState
               /\ last' = [op |-> "applyMove", lineId |-> lineId, player |-> player,
                           pre |-> gameState, applied |-> TRUE,
                           boxesFormed |-> r.boxesFormed]
        /\ UNCHANGED <<gridRows, gridCols>>

Next == ApplyMove

Spec == Init /\ [][Next]_vars

NextBoard == LineClick \/ PlayAgain

SpecBoard == Init /\ [][NextBoard]_vars

NextValidated == ApplyValidatedMove

\* A second click that reaches the handleLineClick of the render before the
\* last click: useCallback closed it over that render's gameState and
\* playerTurn, here last.pre. The handler computes newState from its snapshot
\* and setGameState(newState) puts that value in place of the committed state;
\* the functional turn update then runs on it. A rejected click sets nothing.
StaleLineClick ==
    /\ last.op = "handleLineClick"
    /\ \E lineId \in LineIds(last.pre) :
           LET r == handleLineClick(last.pre, lineId)
           IN  /\ gameState' = IF r.applied THEN r.state ELSE gameState
               /\ last' = [op |-> "staleLineClick", lineId |-> lineId,
                           player |-> last.pre.playerTurn, pre |-> gameState,
                           applied |-> r.applied, boxesFormed |-> r.boxesFormed]
               /\ UNCHANGED <<gridRows, gridCols>>

NextStale == LineClick \/ StaleLineClick \/ PlayAgain

\* GameBoard with clicks that may arrive before the re-render.
SpecStale == Init /\ [][NextStale]_vars

\* A click on a line that is still undrawn: the onClick of a line the page
\* renders, for which handleLineClick gets past isValidMove.
ClickUndrawn == LineClick /\ isValidMove(gameState, last'.lineId)

\* The board shows a line that is still undrawn. This is where ClickUndrawn
\* can be taken, ENABLED <<ClickUndrawn>>_vars: such a click draws the line, so
\* it changes gameState.
UndrawnLineShown == \E lineId \in LineIds(gameState) : isValidMove(gameState, lineId)

\* The game as GameBoard plays it, with players who go on playing: as long as
\* an undrawn line is on the board, one is clicked in the end. The last
\* conjunct is WF_vars(ClickUndrawn) written out by the definition of WF.
SpecBoardFair ==
    /\ Init
    /\ [][NextBoard]_vars
    /\ (<>[]UndrawnLineShown => []<><<ClickUndrawn>>_vars)

SpecValidated == InitWide /\ [][NextValidated]_vars

(***************************************************************************)
(* Vocabulary of the properties, stated from the rules of the game and     *)
(* the identity scheme, not from the code above.                           *)
(***************************************************************************)

BoxIndices(state) == 1..Len(state.boxes)
LineIndices(state) == 1..Len(state.lines)

\* Ids of the drawn lines of a state.
DrawnLineIds(state) ==
    {state.lines[i].id : i \in {j \in LineIndices(state) : state.lines[j].isDrawn}}

\* The line exists and is not drawn.
LegalMove(state, lineId) ==
    \E i \in LineIndices(state) :
        state.lines[i].id = lineId /\ ~state.lines[i].isDrawn

\* Every line is drawn: no undrawn line is left.
Terminal(state) == ~\E i \in LineIndices(state) : ~state.lines[i].isDrawn

\* Number of boxes a player owns.
BoxesOwnedBy(state, p) ==
    Cardinality({i \in BoxIndices(state) : state.boxes[i].owner = p})

\* Box coordinates of a rows x cols dot grid in row-major order.
BoxCoordsRowMajor(rows, cols) ==
    [k \in 1..((rows - 1) * (cols - 1)) |->
        <<(k - 1) \div (cols - 1), (k - 1) % (cols - 1)>>]

\* top, bottom, left and right line of the box at (r, c).
BoundingLineIds(r, c) ==
    {getLineId(r, c, "horizontal"), getLineId(r + 1, c, "horizontal"),
     getLineId(r, c, "vertical"), getLineId(r, c + 1, "vertical")}

\* Drawing lineId in state pre closes the box at rc: the line bounds the box
\* and the other three bounding lines are already drawn.
ClosedBy(pre, lineId, rc) ==
    /\ lineId \in BoundingLineIds(rc[1], rc[2])
    /\ (BoundingLineIds(rc[1], rc[2]) \ {lineId}) \subseteq DrawnLineIds(pre)

\* The boxes a move must report, in row-major order.
ExpectedBoxesFormed(pre, lineId) ==
    LET coords == BoxCoordsRowMajor(pre.gridSize.rows, pre.gridSize.cols)
        sel    == SelectSeq(coords, LAMBDA rc : ClosedBy(pre, lineId, rc))
    IN  [k \in 1..Len(sel) |-> getBoxId(sel[k][1], sel[k][2])]

\* Owner of the box with the given id.
OwnerOfBox(state, boxId) ==
    LET i == CHOOSE j \in BoxIndices(state) : state.boxes[j].id = boxId
    IN  state.boxes[i].owner

SeqRange(seq) == {seq[k] : k \in 1..Len(seq)}

(***************************************************************************)
(* Properties                                                              *)
(***************************************************************************)

\* C1 - Score invariant: in every state reached from initializeGame by any
\* sequence of applyMove calls (any line id, any acting player), the score of
\* each player equals the number of boxes that player owns.
ScoreInvariant ==
    \A p \in Player : gameState.scores[p] = BoxesOwnedBy(gameState, p)

\* C1 witness: after an applyMove call each player owns a box and has a point.
ScoreInvariantWitness ==
    /\ last.op = "applyMove"
    /\ BoxesOwnedBy(gameState, "player1") = 1
    /\ BoxesOwnedBy(gameState, "player2") = 1
    /\ gameState.scores = [player1 |-> 1, player2 |-> 1]

\* C2 - Turn consistency in GameBoard: playerTurn after a click differs from
\* playerTurn before it if and only if the click was accepted (game not over,
\* line legal) and the move formed no box; an accepted click that forms a box
\* and every rejected click leave playerTurn unchanged.
TurnConsistency ==
    last.op = "handleLineClick" =>
        LET accepted == ~Terminal(last.pre) /\ LegalMove(last.pre, last.lineId)
            formed   == applyMove(last.pre, last.lineId, last.pre.playerTurn).boxesFormed
        IN  /\ (gameState.playerTurn # last.pre.playerTurn)
                   <=> (accepted /\ formed = <<>>)
            /\ last.applied <=> accepted
            /\ last.applied => last.boxesFormed = formed

\* C2 witness: an accepted click formed a box and the same player moves again.
TurnConsistencyWitness ==
    /\ last.op = "handleLineClick"
    /\ last.applied
    /\ Len(last.boxesFormed) >= 1
    /\ gameState.playerTurn = last.pre.playerTurn
    /\ gameState.playerTurn = "player2"

\* C3 - Box completion is exact: for a valid move (an existing undrawn line L,
\* any player p) boxesFormed is exactly the boxes that have L among their four
\* bounding lines and whose other three lines were already drawn, in row-major
\* order; when L is the last undrawn line of both boxes next to it, two boxes
\* are formed, both owned by p, and the score of p grows by 2.
BoxCompletionExact ==
    (last.op = "applyMove" /\ LegalMove(last.pre, last.lineId)) =>
        LET pre    == last.pre
            L      == last.lineId
            p      == last.player
            coords == SeqRange(BoxCoordsRowMajor(pre.gridSize.rows, pre.gridSize.cols))
            next   == {rc \in coords : L \in BoundingLineIds(rc[1], rc[2])}
        IN  /\ last.boxesFormed = ExpectedBoxesFormed(pre, L)
            /\ (Cardinality(next) = 2 /\ \A rc \in next : ClosedBy(pre, L, rc)) =>
                   /\ Len(last.boxesFormed) = 2
                   /\ \A rc \in next :
                          OwnerOfBox(gameState, getBoxId(rc[1], rc[2])) = p
                   /\ gameState.scores[p] = pre.scores[p] + 2

\* C3 witness: player2 drew the last shared line between two boxes and closed
\* both at once.
BoxCompletionExactWitness ==
    /\ last.op = "applyMove"
    /\ LegalMove(last.pre, last.lineId)
    /\ last.player = "player2"
    /\ Len(last.boxesFormed) = 2
    /\ \A i \in BoxIndices(last.pre) : last.pre.boxes[i].owner = Null
    /\ \A i \in BoxIndices(gameState) : gameState.boxes[i].owner = "player2"

\* C4 - In every reachable state a single applyMove(state, L, p), for any line
\* id and any player, completes zero, one or two boxes and never more; every
\* box it completes gets owner p, the score of p grows by the number of boxes
\* formed, and the score of the other player is unchanged.
MoveEffect(pre, p, post, formed) ==
    LET n       == Len(formed)
        changed == {i \in BoxIndices(pre) : post.boxes[i].owner # pre.boxes[i].owner}
    IN  /\ n \in {0, 1, 2}
        /\ Len(post.boxes) = Len(pre.boxes)
        /\ Cardinality(changed) = n
        /\ {pre.boxes[i].id : i \in changed} = SeqRange(formed)
        /\ \A i \in changed : pre.boxes[i].owner = Null /\ post.boxes[i].owner = p
        /\ post.scores[p] = pre.scores[p] + n
        /\ post.scores[OtherPlayer(p)] = pre.scores[OtherPlayer(p)]

MoveCompletesAtMostTwo ==
    \* the call that was made (under validated play: any legal line, any player)
    /\ last.op = "applyMove" =>
           MoveEffect(last.pre, last.player, gameState, last.boxesFormed)
    \* and every call with a line id that is not legal in the state reached
    /\ \A L \in LineIds(gameState) \cup OutsideIds(gameState), p \in Player :
           ~LegalMove(gameState, L) =>
               LET r == applyMove(gameState, L, p)
               IN  MoveEffect(gameState, p, r.newState, r.boxesFormed)

\* C4 witness: on a grid of three boxes a move by player2 closed two boxes
\* after player1 had closed one.
MoveCompletesAtMostTwoWitness ==
    /\ last.op = "applyMove"
    /\ Len(gameState.boxes) = 3
    /\ last.player = "player2"
    /\ Len(last.boxesFormed) = 2
    /\ last.pre.scores = [player1 |-> 1, player2 |-> 0]
    /\ gameState.scores = [player1 |-> 1, player2 |-> 2]

\* C5 - applyMove is a silent no-op on an illegal move: for a line id that is
\* not in the line set or names a drawn line it returns the state it was given
\* and an empty list; so applying the same line id again to the result of any
\* call returns that result unchanged, with an empty list, for any player.
IllegalMoveIsNoOp ==
    last.op = "applyMove" =>
        /\ ~LegalMove(last.pre, last.lineId) =>
               (gameState = last.pre /\ last.boxesFormed = <<>>)
        /\ \A p \in Player :
               applyMove(gameState, last.lineId, p)
                   = [newState |-> gameState, boxesFormed |-> <<>>]

\* C5 witness: applyMove was called for a line the other player had drawn, in a
\* state where a box was already owned.
IllegalMoveIsNoOpWitness ==
    /\ last.op = "applyMove"
    /\ \E i \in LineIndices(last.pre) :
           /\ last.pre.lines[i].id = last.lineId
           /\ last.pre.lines[i].isDrawn
           /\ last.pre.lines[i].owner = OtherPlayer(last.player)
    /\ \E i \in BoxIndices(last.pre) : last.pre.boxes[i].owner # Null

\* C6 - Terminal is absorbing in GameBoard: once the game is over no line click
\* changes the state; the only way out is Play Again, which is available only
\* when the game is over and sets the state to initializeGame(gridRows, gridCols).
TerminalAbsorbing ==
    [][ /\ (Terminal(gameState) /\ last'.op # "playAgain") => gameState' = gameState
        /\ (Terminal(gameState) /\ gameState' # gameState) => last'.op = "playAgain"
        /\ (last' # last /\ last'.op = "playAgain") =>
               /\ Terminal(gameState)
               /\ gameState' = initializeGame(gridRows, gridCols)
      ]_vars

\* C6 witness: a line was clicked after the game had ended with a box owned.
TerminalAbsorbingWitness ==
    /\ last.op = "handleLineClick"
    /\ Terminal(last.pre)
    /\ Len(last.pre.lines) > 0
    /\ \E i \in BoxIndices(last.pre) : last.pre.boxes[i].owner # Null

\* C7 - getWinner is null whenever some line is undrawn, whatever the scores;
\* on a terminal state it is the player with the strictly higher score, and
\* null when the scores are equal.
WinnerCorrect ==
    LET s1 == gameState.scores.player1
        s2 == gameState.scores.player2
    IN  /\ ~Terminal(gameState) => getWinner(gameState) = Null
        /\ (Terminal(gameState) /\ s1 > s2) => getWinner(gameState) = "player1"
        /\ (Terminal(gameState) /\ s2 > s1) => getWinner(gameState) = "player2"
        /\ (Terminal(gameState) /\ s1 = s2) => getWinner(gameState) = Null

\* C7 witness: a game in progress in which player2 leads.
WinnerCorrectWitness ==
    /\ last.op = "applyMove"
    /\ ~Terminal(gameState)
    /\ gameState.scores.player2 > gameState.scores.player1

\* C8 - checkGameEnd is true if and only if the number of drawn lines equals
\* the number of lines; a 1 x 1 grid has no line, so its fresh state is already
\* terminal, with no box and no winner.
GameEndIffAllDrawn ==
    /\ checkGameEnd(gameState)
           <=> (Cardinality({i \in LineIndices(gameState) : gameState.lines[i].isDrawn})
                    = Len(gameState.lines))
    /\ (gridRows = 1 /\ gridCols = 1) =>
           /\ gameState.lines = <<>>
           /\ gameState.boxes = <<>>
           /\ checkGameEnd(gameState)
           /\ getWinner(gameState) = Null

\* C8 witness: the freshly initialized 1 x 1 grid.
GameEndIffAllDrawnWitness ==
    /\ gridRows = 1
    /\ gridCols = 1
    /\ last.op = "initializeGame"
    /\ gameState = initializeGame(1, 1)
    /\ checkGameEnd(gameState)

\* C9 - isValidMove is true if and only if a line with that id exists and is
\* not drawn; it is false for an unknown id, and it depends neither on
\* playerTurn nor on whether the game is over.
ValidMoveIffUndrawnLine ==
    /\ \A id \in LineIds(gameState) \cup OutsideIds(gameState) :
           /\ isValidMove(gameState, id) <=> LegalMove(gameState, id)
           /\ \A p \in Player :
                  isValidMove([gameState EXCEPT !.playerTurn = p], id)
                      = isValidMove(gameState, id)
    /\ \A id \in OutsideIds(gameState) : ~isValidMove(gameState, id)
    /\ (last.op = "handleLineClick" /\ ~Terminal(last.pre)) =>
           (last.applied <=> LegalMove(last.pre, last.lineId))

\* C9 witness: during player2's turn a click on a drawn line was turned down
\* by isValidMove while the game was still on.
ValidMoveIffUndrawnLineWitness ==
    /\ last.op = "handleLineClick"
    /\ ~Terminal(last.pre)
    /\ last.pre.playerTurn = "player2"
    /\ last.lineId \in DrawnLineIds(last.pre)
    /\ ~last.applied

\* C10 - Lines are immutable once drawn: over any sequence of applyMove calls
\* a line drawn with owner p stays drawn with owner p, and in every state a
\* line is drawn if and only if its owner is non-null.
DrawnIffOwned(state) ==
    \A i \in LineIndices(state) :
        /\ state.lines[i].isDrawn <=> state.lines[i].owner # Null
        /\ state.lines[i].owner \in Player \cup {Null}

LinesImmutableOnceDrawn ==
    /\ []DrawnIffOwned(gameState)
    /\ [][ /\ Len(gameState'.lines) = Len(gameState.lines)
           /\ \A i \in LineIndices(gameState) :
                  gameState.lines[i].isDrawn => gameState'.lines[i] = gameState.lines[i]
         ]_vars

\* C10 witness: player1 called applyMove for a line player2 had drawn; the line
\* still belongs to player2.
LinesImmutableOnceDrawnWitness ==
    /\ last.op = "applyMove"
    /\ last.player = "player1"
    /\ \E i \in LineIndices(gameState) :
           /\ gameState.lines[i].id = last.lineId
           /\ last.pre.lines[i].isDrawn
           /\ last.pre.lines[i].owner = "player2"
           /\ gameState.lines[i].owner = "player2"

\* C11 - Frame of a valid applyMove(state, L, p): in the returned state L is
\* drawn with owner p, every other line is as in the input, every box that had
\* an owner keeps it, and playerTurn, gridSize and playerChars are the input's,
\* whether or not p is the player whose turn it is.
ValidMoveFrame ==
    (last.op = "applyMove" /\ LegalMove(last.pre, last.lineId)) =>
        LET pre == last.pre
        IN  /\ Len(gameState.lines) = Len(pre.lines)
            /\ \A i \in LineIndices(pre) :
                   IF pre.lines[i].id = last.lineId
                   THEN gameState.lines[i]
                            = [pre.lines[i] EXCEPT !.isDrawn = TRUE,
                                                   !.owner = last.player]
                   ELSE gameState.lines[i] = pre.lines[i]
            /\ Len(gameState.boxes) = Len(pre.boxes)
            /\ \A i \in BoxIndices(pre) :
                   pre.boxes[i].owner # Null => gameState.boxes[i] = pre.boxes[i]
            /\ gameState.playerTurn = pre.playerTurn
            /\ gameState.gridSize = pre.gridSize
            /\ gameState.playerChars = pre.playerChars

\* C11 witness: player2 made a valid move while the state said player1's turn,
\* in a state where player1 already owned a box.
ValidMoveFrameWitness ==
    /\ last.op = "applyMove"
    /\ LegalMove(last.pre, last.lineId)
    /\ last.player = "player2"
    /\ last.pre.playerTurn = "player1"
    /\ \E i \in BoxIndices(last.pre) : last.pre.boxes[i].owner = "player1"
    /\ \E i \in LineIndices(last.pre) : last.pre.lines[i].owner = "player1"

\* C12 - The set of lines and the set of boxes are fixed at initialization: in
\* every state reached by applyMove calls the lines (id, orientation, row, col)
\* and boxes (id, row, col) are exactly those of initializeGame(rows, cols), none
\* added, removed or duplicated, and all ids are pairwise distinct.
LineIdentity(l) ==
    [id |-> l.id, orientation |-> l.orientation, row |-> l.row, col |-> l.col]

BoxIdentity(b) == [id |-> b.id, row |-> b.row, col |-> b.col]

BoxIds(state) == {state.boxes[i].id : i \in BoxIndices(state)}

LinesAndBoxesFixed ==
    LET initial == initializeGame(gridRows, gridCols)
    IN  /\ [i \in LineIndices(gameState) |-> LineIdentity(gameState.lines[i])]
               = [i \in LineIndices(initial) |-> LineIdentity(initial.lines[i])]
        /\ [i \in BoxIndices(gameState) |-> BoxIdentity(gameState.boxes[i])]
               = [i \in BoxIndices(initial) |-> BoxIdentity(initial.boxes[i])]
        /\ Cardinality(LineIds(gameState)) = Len(gameState.lines)
        /\ Cardinality(BoxIds(gameState)) = Len(gameState.boxes)
        /\ LineIds(gameState) \cap BoxIds(gameState) = {}

\* C12 witness: a seven-line, two-box grid played to the end by both players.
LinesAndBoxesFixedWitness ==
    /\ last.op = "applyMove"
    /\ Len(gameState.lines) = 7
    /\ Len(gameState.boxes) = 2
    /\ Terminal(gameState)
    /\ gameState.scores = [player1 |-> 1, player2 |-> 1]

\* C13 - applyMove never mutates its input: after applyMove(s, L, p) returns,
\* for a valid or an invalid move, s has the same lines, boxes, scores and
\* playerTurn as before; the drawn line, the awarded boxes and the score
\* increments are in the returned state only.
InputNotMutated ==
    last.op = "applyMove" =>
        LET run == applyMoveObjects(last.pre, last.lineId, last.player)
        IN  /\ run.input = last.pre
            /\ run.newState = gameState
            /\ run.boxesFormed = last.boxesFormed
            /\ LegalMove(last.pre, last.lineId) =>
                   /\ last.lineId \in DrawnLineIds(run.newState)
                   /\ last.lineId \notin DrawnLineIds(run.input)
                   /\ run.newState.scores[last.player]
                          = run.input.scores[last.player] + Len(last.boxesFormed)

\* C13 witness: a valid move by player2 that formed a box and raised the score.
InputNotMutatedWitness ==
    /\ last.op = "applyMove"
    /\ LegalMove(last.pre, last.lineId)
    /\ last.player = "player2"
    /\ Len(last.boxesFormed) = 1
    /\ last.pre.scores.player2 = 0
    /\ gameState.scores.player2 = 1

\* C14 - For rows >= 2 and cols >= 2, initializeGame(rows, cols) produces
\* exactly rows*(cols-1) + (rows-1)*cols lines: one horizontal line per row in
\* [0,rows), col in [0,cols-1) and one vertical line per row in [0,rows-1), col
\* in [0,cols); and (rows-1)*(cols-1) boxes; every line undrawn and unowned,
\* every box unowned, both scores 0 and playerTurn = player1.
LinesOf(state, orientation) ==
    {i \in LineIndices(state) : state.lines[i].orientation = orientation}

FreshShape(state, rows, cols) ==
    LET hor == LinesOf(state, "horizontal")
        ver == LinesOf(state, "vertical")
    IN  /\ Len(state.lines) = rows * (cols - 1) + (rows - 1) * cols
        /\ hor \cup ver = LineIndices(state)
        /\ Cardinality(hor) = rows * (cols - 1)
        /\ {<<state.lines[i].row, state.lines[i].col>> : i \in hor}
               = (0..(rows - 1)) \X (0..(cols - 2))
        /\ Cardinality(ver) = (rows - 1) * cols
        /\ {<<state.lines[i].row, state.lines[i].col>> : i \in ver}
               = (0..(rows - 2)) \X (0..(cols - 1))
        /\ Len(state.boxes) = (rows - 1) * (cols - 1)
        /\ {<<state.boxes[i].row, state.boxes[i].col>> : i \in BoxIndices(state)}
               = (0..(rows - 2)) \X (0..(cols - 2))
        /\ \A i \in LineIndices(state) :
               ~state.lines[i].isDrawn /\ state.lines[i].owner = Null
        /\ \A i \in BoxIndices(state) : state.boxes[i].owner = Null
        /\ state.scores = [player1 |-> 0, player2 |-> 0]
        /\ state.playerTurn = "player1"

InitializeGameShape ==
    \* the state of the game whenever initializeGame has just produced it
    /\ (last.op \in {"initializeGame", "playAgain"} /\ gridRows >= 2 /\ gridCols >= 2)
           => FreshShape(gameState, gridRows, gridCols)
    \* and, at construction, every size of up to MaxSide dots per side
    /\ last.op = "initializeGame" =>
           \A rows \in 2..MaxSide, cols \in 2..MaxSide :
               FreshShape(initializeGame(rows, cols), rows, cols)

\* C14 witness: Play Again on a finished 2 x 3 game put a fresh state in place.
InitializeGameShapeWitness ==
    /\ last.op = "playAgain"
    /\ gridRows = 2
    /\ gridCols = 3
    /\ last.pre.scores.player2 = 2
    /\ Len(gameState.lines) = 7
    /\ Len(gameState.boxes) = 2
    /\ gameState.scores.player2 = 0

\* C15 - End to end on the 2 x 2 grid (4 lines, 1 box) as GameBoard plays it,
\* player1 first: in whatever order the four lines are drawn, the first three
\* moves form no box and are made by player1, player2, player1, the turn
\* passing each time; the fourth move is made by player2, returns
\* boxesFormed = <<"b-0-0">>, gives the box to player2 and makes the scores
\* 0 and 1, after which checkGameEnd is true and getWinner is player2.
OwnerOfLine(state, lineId) ==
    LET i == CHOOSE j \in LineIndices(state) : state.lines[j].id = lineId
    IN  state.lines[i].owner

EndToEndTwoByTwo ==
    (gridRows = 2 /\ gridCols = 2 /\ last.op = "handleLineClick" /\ last.applied) =>
        LET k     == Cardinality(DrawnLineIds(gameState))
            mover == IF k % 2 = 1 THEN "player1" ELSE "player2"
        IN  /\ k \in 1..4
            /\ Cardinality(DrawnLineIds(last.pre)) = k - 1
            /\ last.player = mover
            /\ OwnerOfLine(gameState, last.lineId) = mover
            /\ k <= 3 =>
                   /\ last.boxesFormed = <<>>
                   /\ gameState.playerTurn = OtherPlayer(mover)
                   /\ gameState.boxes[1].owner = Null
                   /\ gameState.scores = [player1 |-> 0, player2 |-> 0]
                   /\ ~checkGameEnd(gameState)
                   /\ getWinner(gameState) = Null
            /\ k = 4 =>
                   /\ last.player = "player2"
                   /\ last.boxesFormed = <<"b-0-0">>
                   /\ gameState.boxes[1].id = "b-0-0"
                   /\ gameState.boxes[1].owner = "player2"
                   /\ gameState.scores = [player1 |-> 0, player2 |-> 1]
                   /\ checkGameEnd(gameState)
                   /\ getWinner(gameState) = "player2"

\* C15 witness: top and left drawn by player1, bottom by player2, and player2
\* has just drawn the right line, the fourth of the game.
EndToEndTwoByTwoWitness ==
    /\ gridRows = 2
    /\ gridCols = 2
    /\ last.op = "handleLineClick"
    /\ last.applied
    /\ last.lineId = "vertical-0-1"
    /\ Terminal(gameState)
    /\ OwnerOfLine(gameState, "horizontal-0-0") = "player1"
    /\ OwnerOfLine(gameState, "horizontal-1-0") = "player2"
    /\ OwnerOfLine(gameState, "vertical-0-0") = "player1"
    /\ OwnerOfLine(gameState, "vertical-0-1") = "player2"

\* C16 - In every state reached by applyMove calls a box has an owner if and
\* only if all four of its bounding lines are drawn (no completed box is left
\* unowned, no box is owned before it is enclosed), and the owner of a box
\* never changes once set.
Enclosed(state, i) ==
    BoundingLineIds(state.boxes[i].row, state.boxes[i].col) \subseteq DrawnLineIds(state)

OwnedIffEnclosed(state) ==
    \A i \in BoxIndices(state) :
        /\ state.boxes[i].owner # Null <=> Enclosed(state, i)
        /\ state.boxes[i].owner \in Player \cup {Null}

BoxOwnedIffEnclosed ==
    /\ []OwnedIffEnclosed(gameState)
    /\ [][ \A i \in BoxIndices(gameState) :
               gameState.boxes[i].owner # Null =>
                   gameState'.boxes[i].owner = gameState.boxes[i].owner
         ]_vars

\* C16 witness: player1 called applyMove with a line of a box player2 owns,
\* while another box has three of its four lines drawn and no owner.
BoxOwnedIffEnclosedWitness ==
    /\ last.op = "applyMove"
    /\ last.player = "player1"
    /\ \E i \in BoxIndices(gameState) :
           /\ gameState.boxes[i].owner = "player2"
           /\ last.lineId \in BoundingLineIds(gameState.boxes[i].row,
                                              gameState.boxes[i].col)
           /\ last.pre.boxes[i].owner = "player2"
    /\ \E i \in BoxIndices(gameState) :
           /\ gameState.boxes[i].owner = Null
           /\ Cardinality(BoundingLineIds(gameState.boxes[i].row, gameState.boxes[i].col)
                              \cap DrawnLineIds(gameState)) = 3

\* C17 - In every terminal state reached by applyMove calls every box is owned,
\* so scores.player1 + scores.player2 = (rows-1)*(cols-1), which is 0 when
\* rows < 2 or cols < 2; in every other reached state the sum is at most that.
BoxCount(rows, cols) == IF rows < 2 \/ cols < 2 THEN 0 ELSE (rows - 1) * (cols - 1)

TerminalAllOwned ==
    LET sum == gameState.scores.player1 + gameState.scores.player2
    IN  /\ Terminal(gameState) =>
               /\ \A i \in BoxIndices(gameState) : gameState.boxes[i].owner \in Player
               /\ sum = BoxCount(gridRows, gridCols)
        /\ ~Terminal(gameState) => sum <= BoxCount(gridRows, gridCols)

\* C17 witness: the last line of a 3 x 2 game closed both boxes at once.
TerminalAllOwnedWitness ==
    /\ last.op = "applyMove"
    /\ gridRows = 3
    /\ gridCols = 2
    /\ ~Terminal(last.pre)
    /\ Terminal(gameState)
    /\ Len(last.boxesFormed) = 2
    /\ gameState.scores.player1 + gameState.scores.player2 = 2

\* C18 - The core cannot leave a terminal state, even without the caller's
\* gate: where checkGameEnd is true, isValidMove is false for every line id and
\* applyMove returns the state unchanged with an empty boxesFormed list, for
\* every line id and every player.
TerminalRejectsAll ==
    checkGameEnd(gameState) =>
        \A id \in LineIds(gameState) \cup OutsideIds(gameState) :
            /\ ~isValidMove(gameState, id)
            /\ \A p \in Player :
                   applyMove(gameState, id, p)
                       = [newState |-> gameState, boxesFormed |-> <<>>]

\* C18 witness: applyMove was called on a finished game, for one of its lines,
\* by the player who had not drawn it.
TerminalRejectsAllWitness ==
    /\ last.op = "applyMove"
    /\ Len(last.pre.lines) > 0
    /\ checkGameEnd(last.pre)
    /\ last.lineId \in LineIds(last.pre)
    /\ OwnerOfLine(last.pre, last.lineId) = OtherPlayer(last.player)
    /\ checkGameEnd(gameState)

\* C19 - Termination: every accepted move (isValidMove true) increases the
\* number of drawn lines by exactly one and every rejected move leaves it
\* unchanged, so a game on a rows x cols grid (no line drawn at its start) is
\* terminal exactly when rows*(cols-1) + (rows-1)*cols moves have been
\* accepted; and if an undrawn line is clicked in the end whenever there is
\* one, the game reaches a terminal state.
DrawnCount(state) == Cardinality(DrawnLineIds(state))

LineCount(rows, cols) == rows * (cols - 1) + (rows - 1) * cols

MoveCounting(state) ==
    /\ \A id \in LineIds(state) \cup OutsideIds(state), p \in Player :
           DrawnCount(applyMove(state, id, p).newState)
               = DrawnCount(state) + (IF isValidMove(state, id) THEN 1 ELSE 0)
    /\ Terminal(state) <=> DrawnCount(state) = LineCount(gridRows, gridCols)
    /\ DrawnCount(state) <= LineCount(gridRows, gridCols)

GameTerminates ==
    /\ [](last.op \in {"initializeGame", "playAgain"} => DrawnCount(gameState) = 0)
    /\ [](UndrawnLineShown <=> ~Terminal(gameState))
    /\ []MoveCounting(gameState)
    /\ [][ last'.op = "handleLineClick" =>
               /\ last'.applied <=> isValidMove(gameState, last'.lineId)
               /\ DrawnCount(gameState')
                      = DrawnCount(gameState) + (IF last'.applied THEN 1 ELSE 0)
         ]_vars
    /\ (~Terminal(gameState)) ~> Terminal(gameState)

\* C19 witness: the seventh accepted click of a 2 x 3 game ended it.
GameTerminatesWitness ==
    /\ last.op = "handleLineClick"
    /\ last.applied
    /\ gridRows = 2
    /\ gridCols = 3
    /\ DrawnCount(last.pre) = 6
    /\ DrawnCount(gameState) = 7
    /\ Terminal(gameState)

\* C20 - No accepted move is lost or half-applied in GameBoard: after every
\* click that passes isValidMove the committed state has that line drawn, owned
\* by the player whose turn the handler saw, with the turn flipped iff no box
\* formed, and every line drawn before is still drawn (lines stay drawn until
\* reset) - also when the click is handled by a handler closed over the
\* gameState of the render before the previous click.
NoAcceptedMoveLost ==
    /\ (last.op \in {"handleLineClick", "staleLineClick"} /\ last.applied) =>
           /\ last.lineId \in DrawnLineIds(gameState)
           /\ OwnerOfLine(gameState, last.lineId) = last.player
           /\ gameState.playerTurn = (IF last.boxesFormed = <<>>
                                      THEN OtherPlayer(last.player)
                                      ELSE last.player)
    /\ last.op \in {"handleLineClick", "staleLineClick"} =>
           DrawnLineIds(last.pre) \subseteq DrawnLineIds(gameState)

====
